---- MODULE Spec2Model ----
(***************************************************************************)
(* A model of the generic symbol table of src/symtab.c (a fixed array of   *)
(* buckets with sorted separate chaining, plus its iterator) and of the    *)
(* word-counting loop of src/main.c that drives it.                        *)
(*                                                                         *)
(* Memory is modelled as a heap of entry_t cells, heap[a] being the entry   *)
(* at address a; NULL is the null pointer and Wild the value of a pointer   *)
(* read from outside the bucket array.  malloc may return any unused       *)
(* address, and the code only ever tests entry addresses for equality, so  *)
(* the model fixes which one: the cell reserved for the key (or cursor)    *)
(* the entry is allocated for while that cell is unused, else the lowest   *)
(* unused spare cell.  32-bit unsigned words are                           *)
(* pairs <<hi, lo>> of 16-bit limbs and 64-bit pointer words are 4-tuples  *)
(* of 16-bit limbs, most significant first, so that every intermediate     *)
(* result stays inside the integers the model checker can represent.       *)
(***************************************************************************)
EXTENDS Integers, Sequences, FiniteSets, TLC

(***************************************************************************)
(* Bounds of the model.                                                    *)
(***************************************************************************)
\* largest sizeHint handed to symtabCreate
MaxSize == 3
\* number of iterators created on the table
MaxIters == 1
\* number of symtabNext calls made on an iterator after index passed size,
\* and number of pairs it returns beyond one per key
MaxPast == 2
\* number of symtabInstall calls made while an iterator exists
MaxLate == 1
\* number of times processFile reads one word
MaxWords == 5
\* heap cells beyond one per key and one per cursor
HeapSpare == 1

(***************************************************************************)
(* Keys: NUL-terminated C strings, as the sequence of their bytes.         *)
(***************************************************************************)
apple == <<97, 112, 112, 108, 101>>
lemon == <<108, 101, 109, 111, 110>>
mango == <<109, 97, 110, 103, 111>>
zebra == <<122, 101, 98, 114, 97>>
Keys == {apple, lemon, mango, zebra}

\* the words processFile reads: getWord (main.c:35-80) returns only words of
\* MIN_WORD to MAX_WORD letters, in lower case
MIN_WORD == 6
MAX_WORD == 50
banana == <<98, 97, 110, 97, 110, 97>>
cherry == <<99, 104, 101, 114, 114, 121>>
orange == <<111, 114, 97, 110, 103, 101>>
Words == {w \in {banana, cherry, orange} : Len(w) >= MIN_WORD /\ Len(w) <= MAX_WORD}

\* the key of a node whose key field was never assigned or never filled in
NoKey == <<0>>
\* the key read through a pointer that does not point to an entry
Garbage == <<255>>

(***************************************************************************)
(* 32-bit unsigned arithmetic on <<hi, lo>> limbs.                         *)
(***************************************************************************)
Limb == 65536

RECURSIVE Pow2(_)
Pow2(n) == IF n = 0 THEN 1 ELSE 2 * Pow2(n - 1)

RECURSIVE Xor16(_, _)
Xor16(a, b) ==
    IF a = 0 THEN b
    ELSE IF b = 0 THEN a
    ELSE (((a % 2) + (b % 2)) % 2) + 2 * Xor16(a \div 2, b \div 2)

Xor32(x, y) == <<Xor16(x[1], y[1]), Xor16(x[2], y[2])>>

Add32(x, y) ==
    LET lo == x[2] + y[2]
    IN  <<(x[1] + y[1] + (lo \div Limb)) % Limb, lo % Limb>>

\* x << n for 0 < n < 16
Shl32(x, n) ==
    LET lo == x[2] * Pow2(n)
    IN  <<(((x[1] % Pow2(16 - n)) * Pow2(n)) + (lo \div Limb)) % Limb, lo % Limb>>

\* x >> n for 0 < n < 32
Shr32(x, n) ==
    IF n >= 16
    THEN <<0, x[1] \div Pow2(n - 16)>>
    ELSE <<x[1] \div Pow2(n), (x[2] \div Pow2(n)) + ((x[1] % Pow2(n)) * Pow2(16 - n))>>

\* x * m modulo 2^32, for a multiplier m below 2^31 whose limbs keep the
\* partial products inside the integers
Mul32(x, m) ==
    LET mhi == m \div Limb
        mlo == m % Limb
        lo  == x[2] * mlo
    IN  <<((x[1] * mlo) + (x[2] * mhi) + (lo \div Limb)) % Limb, lo % Limb>>

\* x % n for 0 < n < 2^15
Mod32(x, n) == (((x[1] % n) * (Limb % n)) + (x[2] % n)) % n

(***************************************************************************)
(* hash (symtab.c:37-53)                                                   *)
(***************************************************************************)
\* const unsigned int p = 16777619
FnvPrime == 16777619
\* unsigned int hash = 2166136261u, as limbs 0x811C and 0x9DC5
FnvSeedHi == 33052
FnvSeedLo == 40389

RECURSIVE HashBytes(_, _)
HashBytes(h, str) ==
    IF str = <<>> THEN h
    ELSE HashBytes(Mul32(Xor32(h, <<0, Head(str)>>), FnvPrime), Tail(str))

HashMix(h0) ==
    LET h1 == Add32(h0, Shl32(h0, 13))
        h2 == Xor32(h1, Shr32(h1, 7))
        h3 == Add32(h2, Shl32(h2, 3))
        h4 == Xor32(h3, Shr32(h3, 17))
    IN  Add32(h4, Shl32(h4, 5))

Hash32(str) == HashMix(HashBytes(<<FnvSeedHi, FnvSeedLo>>, str))

\* the 32-bit hash of every key of the model, computed once
HashOfKey == [k \in Keys \cup Words |-> Hash32(k)]

\* hash(hashtable, str): the bucket index of str in a table of the given size
hash(size, str) == Mod32(HashOfKey[str], size)

(***************************************************************************)
(* strcmp: negative, zero or positive as a is below, equal to or above b   *)
(***************************************************************************)
RECURSIVE strcmp(_, _)
strcmp(a, b) ==
    IF a = <<>> /\ b = <<>> THEN 0
    ELSE IF a = <<>> THEN -1
    ELSE IF b = <<>> THEN 1
    ELSE IF Head(a) # Head(b) THEN Head(a) - Head(b)
    ELSE strcmp(Tail(a), Tail(b))

(***************************************************************************)
(* Pointer-width (64-bit) words: the void * values the table stores.       *)
(***************************************************************************)
\* the word holding the small integer n, as main.c's (void *) (long) n
Word(n) == <<0, 0, 0, n>>
NullWord == Word(0)

\* (int) w: the low 32 bits of a pointer word
Low32(w) == <<w[3], w[4]>>

\* (void *) i for a 32-bit int i: sign extension to pointer width
SignExtend(i) ==
    IF i[1] >= 32768 THEN <<65535, 65535, i[1], i[2]>> ELSE <<0, 0, i[1], i[2]>>

\* (void *) (long) u for an unsigned int u: zero extension
ZeroExtend(u) == <<0, 0, u[1], u[2]>>

\* w + 1 on a pointer word
Inc64(w) ==
    LET c4 == w[4] + 1
        c3 == w[3] + (c4 \div Limb)
        c2 == w[2] + (c3 \div Limb)
        c1 == w[1] + (c2 \div Limb)
    IN  <<c1 % Limb, c2 % Limb, c3 % Limb, c4 % Limb>>

\* largest small integer installed as a value
MaxValue == 2
Values == {Word(n) : n \in 0..MaxValue}

\* pointer-width values that do not fit an int: 2^32, whose low 32 bits are
\* zero, and 2^31 + 1, whose low 32 bits are a negative int
WideValues == {<<0, 1, 0, 0>>, <<0, 0, 32768, 1>>}

(***************************************************************************)
(* State.                                                                  *)
(***************************************************************************)
VARIABLES
    hashtable,  \* the hashtable_t behind the handle: its size and bucket array
    heap,       \* the entry_t nodes obtained from malloc, by address
    iters,      \* the hash_elem_it_t cursors created so far
    status,     \* "run", "crashed" (invalid memory access) or "exited" (exit(-1))
    last,       \* the latest call: its arguments, result and what it touched
    installed,  \* history: the value of the latest successful install of a key
    occ,        \* history: how often processFile has counted each word
    late,       \* history: symtabInstall calls made while an iterator exists
    freed       \* what free() has been called on, and the buckets symtabDelete read

vars == <<hashtable, heap, iters, status, last, installed, occ, late, freed>>

\* the null pointer, and a non-null pointer that addresses no entry
NULL == 0
Wild == -1
\* what a read of table[index] stands for when index is not below size
Past == -2
\* the outcome of an access that the hardware refuses
Trap == -3

\* no table: the handle symtabCreate returns on failure
NoTable == [size |-> 0, table |-> <<>>]

\* history marker of a key that no install has stored
Absent == <<>>

AllKeys == Keys \cup Words

\* the heap cell reserved for the entry of a key, and for the entry that
\* symtabCreateIterator allocates for the n-th cursor
KeyList == <<apple, lemon, mango, zebra, banana, cherry, orange>>
EntryAddr(symbol) == CHOOSE a \in 1..Len(KeyList) : KeyList[a] = symbol
CursorAddr(n) == Len(KeyList) + n
SpareAddrs == (Len(KeyList) + MaxIters + 1)..(Len(KeyList) + MaxIters + HeapSpare)
Addrs == 1..(Len(KeyList) + MaxIters + HeapSpare)

\* a cell malloc has not handed out, and an entry as malloc hands it out
Unused == [key |-> NoKey, value |-> NullWord, next |-> NULL, used |-> FALSE]
Entry(key, value, next) == [key |-> key, value |-> value, next |-> next, used |-> TRUE]

\* malloc(sizeof(entry_t)): the address of an unused cell, NULL when the
\* allocation fails (ok = FALSE) or no cell is left
Malloc(h, pref, ok) ==
    IF ~ok THEN NULL
    ELSE IF ~h[pref].used THEN pref
    ELSE IF \E a \in SpareAddrs : ~h[a].used
         THEN CHOOSE a \in SpareAddrs :
                 ~h[a].used /\ \A b \in SpareAddrs : ~h[b].used => a <= b
         ELSE NULL

Call(op, key, data, ret, bad, note) ==
    [op |-> op, key |-> key, data |-> data, ret |-> ret, bad |-> bad, note |-> note]

(***************************************************************************)
(* symtabCreate (symtab.c:79-105)                                          *)
(***************************************************************************)
\* the table that the two successful mallocs and the clearing loop build
NewTable(sizeHint) ==
    [size |-> sizeHint, table |-> [i \in 0..(sizeHint - 1) |-> NULL]]

\* a create that does not test the malloc of the bucket array
symtabCreateUntested(sizeHint, m1, m2) ==
    IF sizeHint < 1 THEN NoTable
    ELSE IF ~m1 THEN NoTable
    ELSE NewTable(sizeHint)

\* m1, m2: whether the malloc of the struct and of the bucket array succeed
symtabCreate(sizeHint, m1, m2) ==
    IF sizeHint < 1 THEN NoTable
    ELSE IF ~m1 THEN NoTable
    ELSE IF ~m2 THEN NoTable
    ELSE NewTable(sizeHint)

(***************************************************************************)
(* lookup and symtabLookup (symtab.c:55-76, 217-234)                       *)
(***************************************************************************)
\* a lookup that walks the whole chain of the bucket
RECURSIVE FindInChain(_, _, _)
FindInChain(h, pair, key) ==
    IF pair = NULL THEN NULL
    ELSE IF strcmp(key, h[pair].key) = 0 THEN pair
    ELSE FindInChain(h, h[pair].next, key)

lookupWholeChain(ht, h, key) ==
    LET pair == FindInChain(h, ht.table[hash(ht.size, key)], key)
    IN  IF pair = NULL THEN NullWord ELSE h[pair].value

lookup(ht, h, key) ==
    LET bin  == hash(ht.size, key)
        pair == ht.table[bin]
    IN  IF pair = NULL \/ h[pair].key = NoKey \/ strcmp(key, h[pair].key) # 0
        THEN NullWord
        ELSE h[pair].value

\* int data = lookup(...); if (data != NULL) return data; return NULL;
symtabLookup(ht, h, symbol) ==
    LET data == Low32(lookup(ht, h, symbol))
    IN  IF data # <<0, 0>> THEN SignExtend(data) ELSE NullWord

(***************************************************************************)
(* symtabInstall (symtab.c:143-214)                                        *)
(***************************************************************************)
\* a scan that advances while the symbol is below the entry's key
RECURSIVE InstallScanBelow(_, _, _, _)
InstallScanBelow(h, symbol, next, prev) ==
    IF next # NULL /\ h[next].key # NoKey /\ strcmp(symbol, h[next].key) < 0
    THEN InstallScanBelow(h, symbol, h[next].next, next)
    ELSE <<next, prev>>

\* the while loop of lines 158-161: <<next, last>> when it stops
RECURSIVE InstallScan(_, _, _, _)
InstallScan(h, symbol, next, prev) ==
    IF next # NULL /\ h[next].key # NoKey /\ strcmp(symbol, h[next].key) > 0
    THEN InstallScan(h, symbol, h[next].next, next)
    ELSE <<next, prev>>

\* a test that takes the entry the scan stopped on for the symbol's when its
\* key is above the symbol
InstallFoundAbove(h, symbol, next) ==
    next # NULL /\ h[next].key # NoKey /\ strcmp(symbol, h[next].key) < 0

\* line 165: the scan stopped on an entry with this very key
InstallFound(h, symbol, next) ==
    next # NULL /\ h[next].key # NoKey /\ strcmp(symbol, h[next].key) = 0

\* an update that writes the value into every entry
InstallUpdateSpill(h, next, data) ==
    [a \in DOMAIN h |-> IF h[a].used THEN [h[a] EXCEPT !.value = data] ELSE h[a]]

\* an update that leaves the stored value as it was
InstallUpdateLost(h, next, data) == h

\* line 170: next->value = data
InstallUpdate(h, next, data) == [h EXCEPT ![next].value = data]

\* lines 194-206: link newpair into the chain of bin
InstallSplice(ht, h, bin, newpair, next, prev) ==
    IF next = ht.table[bin]
    THEN [ht   |-> [ht EXCEPT !.table[bin] = newpair],
          heap |-> [h EXCEPT ![newpair].next = next],
          note |-> "head"]
    ELSE IF next = NULL
    THEN [ht   |-> ht,
          heap |-> [h EXCEPT ![prev].next = newpair],
          note |-> "tail"]
    ELSE [ht   |-> ht,
          heap |-> [h EXCEPT ![newpair].next = next, ![prev].next = newpair],
          note |-> "middle"]

\* lines 182-206, given where the scan stopped.  mNode, mKey: whether the
\* malloc of the entry and of the key copy succeed.  The result of the key
\* malloc is not tested: strcpy into NULL kills the process with the new
\* entry allocated but not yet linked.
InstallNew(ht, h, symbol, data, bin, next, prev, mNode, mKey) ==
    LET newpair == Malloc(h, EntryAddr(symbol), mNode)
    IN  IF newpair = NULL
        THEN [ret |-> 0, ht |-> ht, heap |-> h, status |-> "run", note |-> "nomem"]
        ELSE IF ~mKey
        THEN [ret |-> 0, ht |-> ht,
              heap |-> [h EXCEPT ![newpair] = Entry(NoKey, data, NULL)],
              status |-> "crashed", note |-> "strcpy"]
        ELSE
         LET sp == InstallSplice(
                       ht, [h EXCEPT ![newpair] = Entry(symbol, data, NULL)],
                       bin, newpair, next, prev)
         IN  [ret |-> 1, ht |-> sp.ht, heap |-> sp.heap, status |-> "run",
              note |-> sp.note]

symtabInstall(ht, h, symbol, data, mNode, mKey) ==
    LET bin == hash(ht.size, symbol)
        sc  == InstallScan(h, symbol, ht.table[bin], NULL)
    IN  IF InstallFound(h, symbol, sc[1])
        THEN [ret |-> 1, ht |-> ht, heap |-> InstallUpdate(h, sc[1], data),
              status |-> "run", note |-> "update"]
        ELSE InstallNew(ht, h, symbol, data, bin, sc[1], sc[2], mNode, mKey)

\* the malloc outcomes a call of symtabInstall can meet: none is drawn when
\* the symbol is found, and the key malloc is reached only after the entry's
InstallAllocs(ht, h, symbol) ==
    IF InstallFound(h, symbol, InstallScan(h, symbol, ht.table[hash(ht.size, symbol)], NULL)[1])
    THEN {<<TRUE, TRUE>>}
    ELSE {<<TRUE, TRUE>>, <<FALSE, TRUE>>, <<TRUE, FALSE>>}

(***************************************************************************)
(* The iterator (symtab.c:245-331)                                         *)
(***************************************************************************)
\* ht->table[index]; the array has the elements 0 .. size-1 only
ReadBucket(ht, index) == IF index < ht.size THEN ht.table[index] ELSE Past

\* the value a read past the array produced, g, in place of the marker
Resolve(p, g) == IF p = Past THEN g ELSE p

\* the value read through a pointer that addresses no entry
WildWord == <<65535, 65535, 65535, 65535>>

\* the do-while loop of lines 259-267: <<index, elem>> when it stops
RECURSIVE CreateSkip(_, _, _, _)
CreateSkip(ht, h, index, elem) ==
    IF elem # NULL /\ h[elem].key # NoKey
    THEN <<index, elem>>
    ELSE IF index + 1 < ht.size - 1
         THEN CreateSkip(ht, h, index + 1, ReadBucket(ht, index + 1))
         ELSE <<index + 1, ReadBucket(ht, index + 1)>>

\* the do-while loop of lines 302-313: <<index, elem>> when it stops
RECURSIVE NextSkip(_, _, _, _)
NextSkip(ht, h, index, elem) ==
    IF elem # NULL /\ h[elem].key # NoKey
    THEN <<index, elem>>
    ELSE IF index + 1 < ht.size - 1
         THEN NextSkip(ht, h, index + 1, ReadBucket(ht, index + 1))
         ELSE <<index + 1, ReadBucket(ht, index + 1)>>

\* a cursor, with the history of what it has returned: out, the pairs; done,
\* whether it has signalled the end; post, the outcome of the latest call
\* made after that; bad, whether a call on it has read past the bucket
\* array or through a wild pointer; stale, whether symtabInstall was called
\* since it was created
Cursor(index, elem, bad) ==
    [index |-> index, elem |-> elem, out |-> <<>>, done |-> FALSE,
     post |-> "none", bad |-> bad, stale |-> FALSE]

\* a create that links the extra entry behind the first entry of the table
\* as well
symtabCreateIteratorLinked(ht, h, n, mIt, mElem, g) ==
    LET sk   == CreateSkip(ht, h, 0, ht.table[0])
        elem == Malloc(h, CursorAddr(n), mElem)
    IN  IF ~mIt
        THEN [ret |-> 0, its |-> <<>>, heap |-> h, status |-> "run", bad |-> FALSE,
              note |-> "nomem"]
        ELSE IF elem = NULL
        THEN [ret |-> 0, its |-> <<>>, heap |-> h, status |-> "crashed",
              bad |-> TRUE, note |-> "nomem2"]
        ELSE [ret |-> 1,
              its |-> <<Cursor(sk[1], elem, sk[2] = Past)>>,
              heap |-> IF sk[2] \in Addrs
                       THEN [h EXCEPT ![elem] = Entry(NoKey, NullWord, sk[2]),
                                      ![sk[2]].next = elem]
                       ELSE [h EXCEPT ![elem] =
                                Entry(NoKey, NullWord, Resolve(sk[2], g))],
              status |-> "run", bad |-> sk[2] = Past, note |-> ""]

\* n: the number of the cursor created; mIt, mElem: whether the malloc of
\* the cursor and of the extra entry
\* succeed; g: the value that a read past the bucket array produces.  The
\* result of the second malloc is not tested: elem->next = ... writes
\* through NULL.
symtabCreateIterator(ht, h, n, mIt, mElem, g) ==
    IF ~mIt
    THEN [ret |-> 0, its |-> <<>>, heap |-> h, status |-> "run", bad |-> FALSE,
          note |-> "nomem"]
    ELSE LET sk   == CreateSkip(ht, h, 0, ht.table[0])
             elem == Malloc(h, CursorAddr(n), mElem)
         IN  IF elem = NULL
             THEN [ret |-> 0, its |-> <<>>, heap |-> h, status |-> "crashed",
                   bad |-> TRUE, note |-> "nomem2"]
             ELSE [ret |-> 1,
                   its |-> <<Cursor(sk[1], elem, sk[2] = Past)>>,
                   heap |-> [h EXCEPT ![elem] =
                                 Entry(NoKey, NullWord, Resolve(sk[2], g))],
                   status |-> "run", bad |-> sk[2] = Past, note |-> ""]

\* it->elem->next at line 296; g: what a read through a wild pointer gives
NextLink(h, it, g) ==
    IF it.elem = NULL THEN Trap
    ELSE IF it.elem = Wild THEN g
    ELSE h[it.elem].next

\* lines 296-315: the cursor moved to the entry to return, as
\* <<index, elem, ended>>: ended when line 300 returns NULL
NextAdvance(ht, h, it, link) ==
    IF link # NULL
    THEN <<it.index, link, FALSE>>
    ELSE IF it.index + 1 >= ht.size
         THEN <<it.index + 1, it.elem, TRUE>>
         ELSE LET sk == NextSkip(ht, h, it.index + 1, ht.table[it.index + 1])
              IN  <<sk[1], sk[2], FALSE>>

\* the call's effect on the cursor's history
Returned(it, index, elem, pair, bad, what) ==
    [it EXCEPT !.index = index, !.elem = elem,
               !.out = IF what = "pair" THEN Append(@, pair) ELSE @,
               !.post = IF it.done THEN what ELSE @,
               !.done = @ \/ what = "end",
               !.bad = @ \/ bad]

\* g1: what it->elem->next gives when it->elem is wild; g2: what a read past
\* the bucket array gives; g3: whether reading the entry through a wild
\* pointer faults (Trap) or gives garbage
symtabNext(ht, h, it, g1, g2, g3) ==
    LET link == NextLink(h, it, g1)
        adv  == NextAdvance(ht, h, it, link)
        elem == Resolve(adv[2], g2)
        bad  == it.elem = Wild \/ adv[2] = Past \/ elem = Wild
    IN  IF link = Trap
        THEN [key |-> NoKey, value |-> NullWord, status |-> "crashed",
              what |-> "fault",
              it |-> Returned(it, it.index, it.elem, <<>>, it.elem = Wild, "fault")]
        ELSE IF adv[3] \/ elem = NULL
        THEN [key |-> NoKey, value |-> NullWord, status |-> "run",
              what |-> "end",
              it |-> Returned(it, adv[1], elem, <<>>, bad, "end")]
        ELSE IF elem = Wild
        THEN IF g3 = Trap
             THEN [key |-> NoKey, value |-> NullWord, status |-> "crashed",
                   what |-> "fault",
                   it |-> Returned(it, adv[1], elem, <<>>, TRUE, "fault")]
             ELSE [key |-> Garbage, value |-> WildWord, status |-> "run",
                   what |-> "pair",
                   it |-> Returned(it, adv[1], elem, <<Garbage, WildWord>>, TRUE, "pair")]
        ELSE [key |-> h[elem].key, value |-> h[elem].value, status |-> "run",
              what |-> "pair",
              it |-> Returned(it, adv[1], elem, <<h[elem].key, h[elem].value>>,
                              bad, "pair")]

\* the outcomes <<g1, g2, g3>> of the invalid reads a call can make: g1 and
\* g2 are drawn only when the call makes that read
NextReads(ht, h, it) ==
    LET G1 == IF it.elem = Wild THEN {NULL, Wild, Trap} ELSE {NULL}
        G2 == IF it.index + 1 < ht.size
                 /\ NextSkip(ht, h, it.index + 1, ht.table[it.index + 1])[2] = Past
              THEN {NULL, Wild} ELSE {NULL}
    IN  G1 \X G2 \X {Wild, Trap}

\* every live cursor has seen an install since it was created
Staled(its) == [i \in 1..Len(its) |-> [its[i] EXCEPT !.stale = TRUE]]

(***************************************************************************)
(* symtabDelete and symtabDeleteIterator (symtab.c:115-130, 329-331)       *)
(***************************************************************************)
\* the calls of free() made so far: keys and nodes, the entries whose key
\* copy and whose node were freed; array and table, whether the bucket array
\* and the hashtable_t were; cursors, the cursors whose struct was; wild, the
\* number of frees of a pointer that malloc never returned; read, the bucket
\* indexes symtabDelete read, in the order it read them
NothingFreed ==
    [keys |-> {}, nodes |-> {}, array |-> FALSE, table |-> FALSE,
     cursors |-> {}, wild |-> 0, read |-> <<>>]

\* the for loop of lines 120-127 while it meets entries: <<i, keys>> with i
\* the first index whose bucket is empty or lies past the array, and keys the
\* heads whose key it freed before.  It looks at the head of a bucket only.
RECURSIVE DeleteScan(_, _, _, _)
DeleteScan(ht, h, i, keys) ==
    IF i > ht.size - 1 \/ ht.table[i] = NULL
    THEN <<i, keys>>
    ELSE DeleteScan(ht, h, i + 1,
                    IF h[ht.table[i]].key # NoKey THEN keys \cup {ht.table[i]} ELSE keys)

\* g: the value that the read of table[size] produces; gk: what reading the
\* key through that value gives (a fault, NULL or a wild pointer); gf:
\* whether free() of a pointer malloc never returned aborts the process
\* (Trap) or goes undetected
symtabDelete(ht, h, g, gk, gf) ==
    LET sc   == DeleteScan(ht, h, 0, {})
        i    == sc[1]
        done == [NothingFreed EXCEPT !.keys = sc[2],
                                     !.read = [j \in 1..(i + 1) |-> j - 1]]
    IN  IF i < ht.size \/ Resolve(ReadBucket(ht, i), g) = NULL
        THEN \* line 124: iterate->key with iterate == NULL
             [status |-> "crashed", freed |-> done]
        ELSE IF gk = Trap
        THEN [status |-> "crashed", freed |-> done]
        ELSE IF gf = Trap
        THEN [status |-> "crashed", freed |-> [done EXCEPT !.wild = 1]]
        ELSE \* line 125 when the key read is not NULL, then line 128
             [status |-> "deleted",
              freed |-> [done EXCEPT !.wild = IF gk = NULL THEN 1 ELSE 2]]

\* the outcomes <<g, gk, gf>> of the invalid accesses a call can make: drawn
\* only when the loop gets as far as table[size]
DeleteReads(ht, h) ==
    IF DeleteScan(ht, h, 0, {})[1] < ht.size
    THEN {<<NULL, NULL, NULL>>}
    ELSE {NULL, Wild} \X {Trap, NULL, Wild} \X {Trap, NULL}

\* the body of symtabDeleteIterator is empty: it frees nothing
symtabDeleteIterator(f, i) == f

(***************************************************************************)
(* processFile (main.c:83-129): what its loop does with one word           *)
(***************************************************************************)
\* the value handed to symtabInstall: 1 for a word symtabLookup does not
\* find, else (void *) (long) oldCount+1 with unsigned int oldCount
WordCount(data) ==
    IF data = NullWord THEN Word(1) ELSE Inc64(ZeroExtend(Low32(data)))

(***************************************************************************)
(* Actions: one call of the interface each.                                *)
(***************************************************************************)
Init ==
    /\ hashtable = NoTable
    /\ heap = [a \in Addrs |-> Unused]
    /\ iters = <<>>
    /\ status = "run"
    /\ last = Call("none", NoKey, NullWord, 0, FALSE, "")
    /\ installed = [k \in AllKeys |-> Absent]
    /\ occ = [w \in Words |-> 0]
    /\ late = 0
    /\ freed = NothingFreed

\* symtabCreate(sizeHint), as main does once at its start
Create ==
    /\ status = "run"
    /\ hashtable = NoTable
    /\ \E sizeHint \in (-1)..MaxSize, m \in {<<TRUE, TRUE>>, <<FALSE, TRUE>>, <<TRUE, FALSE>>} :
          /\ hashtable' = symtabCreate(sizeHint, m[1], m[2])
          /\ last' = Call("create", NoKey, <<sizeHint, m[1], m[2]>>,
                          IF hashtable'.size = 0 THEN 0 ELSE 1, FALSE, "")
    /\ UNCHANGED <<heap, iters, status, installed, occ, late, freed>>

\* the effect of one symtabInstall call with result r
Installs(symbol, data, r, op) ==
    /\ hashtable' = r.ht
    /\ heap' = r.heap
    /\ status' = r.status
    /\ last' = Call(op, symbol, data, r.ret, r.status = "crashed", r.note)
    /\ installed' = IF r.ret = 1 THEN [installed EXCEPT ![symbol] = data]
                    ELSE installed
    /\ iters' = Staled(iters)
    /\ late' = IF iters = <<>> THEN late ELSE late + 1
    /\ UNCHANGED freed

\* symtabInstall(symtab, symbol, data)
Install ==
    /\ status = "run"
    /\ hashtable # NoTable
    /\ iters = <<>> \/ late < MaxLate
    /\ \E symbol \in Keys, data \in Values :
          \E m \in InstallAllocs(hashtable, heap, symbol) :
             \E r \in {symtabInstall(hashtable, heap, symbol, data, m[1], m[2])} :
                Installs(symbol, data, r, "install")
    /\ UNCHANGED occ

\* symtabLookup(symtab, symbol)
Lookup ==
    /\ status = "run"
    /\ hashtable # NoTable
    /\ \E symbol \in Keys :
          last' = Call("lookup", symbol, NullWord,
                       symtabLookup(hashtable, heap, symbol), FALSE, "")
    /\ UNCHANGED <<hashtable, heap, iters, status, installed, occ, late, freed>>

\* symtabCreateIterator(symtab)
CreateIterator ==
    /\ status = "run"
    /\ hashtable # NoTable
    /\ Len(iters) < MaxIters
    /\ \E m \in {<<TRUE, TRUE>>, <<FALSE, TRUE>>, <<TRUE, FALSE>>}, g \in {NULL, Wild} :
          \E r \in {symtabCreateIterator(hashtable, heap, Len(iters) + 1,
                                          m[1], m[2], g)} :
             /\ iters' = iters \o r.its
             /\ heap' = r.heap
             /\ status' = r.status
             /\ last' = Call("iterator", NoKey, NullWord, r.ret, r.bad, r.note)
    /\ UNCHANGED <<hashtable, installed, occ, late, freed>>

\* symtabNext(iterator, &out) on the i-th cursor
SymtabNext ==
    /\ status = "run"
    /\ \E i \in 1..Len(iters) :
          /\ iters[i].index < hashtable.size + MaxPast
          /\ Len(iters[i].out) < Cardinality(Keys) + MaxPast
          /\ \E g \in NextReads(hashtable, heap, iters[i]) :
                \E r \in {symtabNext(hashtable, heap, iters[i], g[1], g[2], g[3])} :
                   /\ iters' = [iters EXCEPT ![i] = r.it]
                   /\ status' = r.status
                   /\ last' = Call("next", r.key, r.value, i,
                                   r.it.bad \/ r.status = "crashed", r.what)
    /\ UNCHANGED <<hashtable, heap, installed, occ, late, freed>>

\* symtabDeleteIterator(iterator) on the i-th cursor
DeleteIterator ==
    /\ status = "run"
    /\ \E i \in 1..Len(iters) :
          /\ freed' = symtabDeleteIterator(freed, i)
          /\ last' = Call("deleteIterator", NoKey, NullWord, i, FALSE, "")
    /\ UNCHANGED <<hashtable, heap, iters, status, installed, occ, late>>

\* symtabDelete(symtab), called while no cursor refers to the table; no call
\* is made on the handle afterwards
Delete ==
    /\ status = "run"
    /\ hashtable # NoTable
    /\ iters = <<>>
    /\ \E g \in DeleteReads(hashtable, heap) :
          \E r \in {symtabDelete(hashtable, heap, g[1], g[2], g[3])} :
             /\ freed' = r.freed
             /\ status' = r.status
             /\ last' = Call("delete", NoKey, NullWord, 0, r.status = "crashed", "")
    /\ UNCHANGED <<hashtable, heap, iters, installed, occ, late>>

\* processFile's loop body for one word of the file
ProcessWord ==
    /\ status = "run"
    /\ hashtable # NoTable
    /\ \E word \in Words :
          /\ occ[word] < MaxWords
          /\ \E data \in {symtabLookup(hashtable, heap, word)} :
                \E m \in InstallAllocs(hashtable, heap, word) :
                   \E r \in {symtabInstall(hashtable, heap, word, WordCount(data),
                                            m[1], m[2])} :
                      /\ Installs(word, WordCount(data),
                                  [r EXCEPT !.status = IF r.ret = 0 /\ @ = "run"
                                                       THEN "exited" ELSE @],
                                  "word")
                      /\ occ' = IF r.ret = 1 THEN [occ EXCEPT ![word] = @ + 1] ELSE occ

Next ==
    \/ Create
    \/ Install
    \/ Lookup
    \/ CreateIterator
    \/ SymtabNext
    \/ DeleteIterator
    \/ Delete

Spec == Init /\ [][Next]_vars

\* symtabInstall(symtab, symbol, data) with data a full-width pointer word
InstallWide ==
    /\ status = "run"
    /\ hashtable # NoTable
    /\ iters = <<>> \/ late < MaxLate
    /\ \E symbol \in Keys, data \in WideValues :
          \E m \in InstallAllocs(hashtable, heap, symbol) :
             \E r \in {symtabInstall(hashtable, heap, symbol, data, m[1], m[2])} :
                Installs(symbol, data, r, "install")
    /\ UNCHANGED occ

\* the table used with full-width values
NextWide ==
    \/ Create
    \/ InstallWide
    \/ Lookup
    \/ CreateIterator
    \/ SymtabNext

SpecWide == Init /\ [][NextWide]_vars

\* main.c alone: the table is created and filled by processFile only
NextWords ==
    \/ Create
    \/ ProcessWord

SpecWords == Init /\ [][NextWords]_vars

(***************************************************************************)
(* Observations of the state that the properties below are stated with.    *)
(***************************************************************************)
Buckets == 0..(hashtable.size - 1)

\* the addresses of the entries linked from address a on, head first
RECURSIVE ChainFrom(_, _)
ChainFrom(a, fuel) ==
    IF a = NULL \/ fuel = 0 THEN <<>>
    ELSE <<a>> \o ChainFrom(heap[a].next, fuel - 1)

Chain(b) == ChainFrom(hashtable.table[b], Cardinality(Addrs) + 1)

\* the entries of the table, bucket by bucket
RECURSIVE EntriesFrom(_)
EntriesFrom(b) == IF b >= hashtable.size THEN <<>> ELSE Chain(b) \o EntriesFrom(b + 1)

TableEntries == EntriesFrom(0)

KeyAt(a) == heap[a].key

HeadKeys == {KeyAt(hashtable.table[b]) : b \in {c \in Buckets : hashtable.table[c] # NULL}}

NonHeadKeys == UNION {{KeyAt(Chain(b)[i]) : i \in 2..Len(Chain(b))} : b \in Buckets}

InstalledKeys == {k \in AllKeys : installed[k] # Absent}

SmallNonZero(v) == \E n \in 1..MaxValue : v = Word(n)

\* what the table holds: for each bucket its chain, as the address, the key
\* and the value of each entry from the head on
Contents ==
    [b \in Buckets |->
        LET c == Chain(b)
        IN  [i \in 1..Len(c) |-> <<c[i], heap[c[i]].key, heap[c[i]].value>>]]

\* a is below b in the byte-wise lexicographic order
LexLess(a, b) ==
    \E n \in 0..Len(a) :
       /\ n <= Len(b)
       /\ \A j \in 1..n : a[j] = b[j]
       /\ \/ n = Len(a) /\ n < Len(b)
          \/ n < Len(a) /\ n < Len(b) /\ a[n + 1] < b[n + 1]

(***************************************************************************)
(* C1.  Last write wins at the head: for every key that is the first entry *)
(* of its bucket's chain and whose latest successful install passed a      *)
(* small non-zero integer, symtabLookup returns that value; this is so of  *)
(* the result of every symtabLookup call made, too.                        *)
(***************************************************************************)
C1_LastWriteWinsAtHead ==
    hashtable # NoTable =>
       /\ \A k \in HeadKeys :
             (installed[k] # Absent /\ SmallNonZero(installed[k]))
                => symtabLookup(hashtable, heap, k) = installed[k]
       /\ (last.op = "lookup" /\ last.key \in HeadKeys
              /\ installed[last.key] # Absent /\ SmallNonZero(installed[last.key]))
             => last.ret = installed[last.key]

\* an install has just overwritten the value of a key that heads a chain of
\* several entries, and symtabLookup gives the new value
C1_Witness ==
    /\ last.op = "install" /\ last.note = "update" /\ last.ret = 1
    /\ last.key \in HeadKeys
    /\ last.data = Word(2)
    /\ \E b \in Buckets : Len(Chain(b)) >= 2 /\ KeyAt(Chain(b)[1]) = last.key
    /\ symtabLookup(hashtable, heap, last.key) = Word(2)

StoredValue(k) ==
    LET at == {i \in 1..Len(TableEntries) : KeyAt(TableEntries[i]) = k}
    IN  IF at = {} THEN Absent ELSE heap[TableEntries[CHOOSE i \in at : TRUE]].value

C3_WordCountsExact ==
    (hashtable # NoTable /\ status = "run") =>
       \A w \in Words : occ[w] > 0 => StoredValue(w) = Word(occ[w])

(***************************************************************************)
(* C4.  Key uniqueness: no two entries of the table have the same key, and *)
(* the table has one entry for each key that has been installed, so that   *)
(* installing a key that is present adds no entry.                         *)
(***************************************************************************)
C4_KeysUnique ==
    hashtable # NoTable =>
       LET es == TableEntries
       IN  /\ \A i, j \in 1..Len(es) :
                 i # j => es[i] # es[j] /\ KeyAt(es[i]) # KeyAt(es[j])
           /\ {KeyAt(es[i]) : i \in 1..Len(es)} = InstalledKeys
           /\ Len(es) = Cardinality(InstalledKeys)

\* every key is in the table and the latest call installed, once more, a key
\* that is stored behind the head of its chain
C4_Witness ==
    /\ last.op = "install" /\ last.note = "update" /\ last.ret = 1
    /\ last.key \in NonHeadKeys
    /\ InstalledKeys = Keys
    /\ Len(TableEntries) = Cardinality(Keys)

(***************************************************************************)
(* C5.  Sorted chains: the keys of every chain ascend strictly, in         *)
(* byte-wise lexicographic order, from the head to the tail.               *)
(***************************************************************************)
C5_ChainsSorted ==
    hashtable # NoTable =>
       \A b \in Buckets :
          LET c == Chain(b)
          IN  \A i \in 1..(Len(c) - 1) : LexLess(KeyAt(c[i]), KeyAt(c[i + 1]))

\* the latest install spliced its entry into the interior of a chain, which
\* now holds every key: its head and its tail were spliced in before
C5_Witness ==
    /\ last.op = "install" /\ last.note = "middle"
    /\ \E b \in Buckets : Len(Chain(b)) = Cardinality(Keys)

(***************************************************************************)
(* What an iteration of the table as it is should return: the installed    *)
(* pairs, by bucket index and, within a bucket, by ascending key.          *)
(***************************************************************************)
RECURSIVE Ascending(_)
Ascending(S) ==
    IF S = {} THEN <<>>
    ELSE LET m == CHOOSE x \in S : \A y \in S \ {x} : LexLess(x, y)
         IN  <<m>> \o Ascending(S \ {m})

RECURSIVE ExpectedKeysFrom(_)
ExpectedKeysFrom(b) ==
    IF b >= hashtable.size THEN <<>>
    ELSE Ascending({k \in InstalledKeys : hash(hashtable.size, k) = b})
            \o ExpectedKeysFrom(b + 1)

ExpectedPairs ==
    LET ks == ExpectedKeysFrom(0)
    IN  [i \in 1..Len(ks) |-> <<ks[i], installed[ks[i]]>>]

\* the cursors created on the table as it is now
Fresh == {i \in 1..Len(iters) : ~iters[i].stale}

(***************************************************************************)
(* C6.  Iteration completeness: a cursor on an unmodified table that holds *)
(* N >= 1 keys returns installed pairs only, no key twice, its calls up to *)
(* the one that signals the end do not end the process, and once it has    *)
(* signalled the end it has returned N pairs, one per installed key.       *)
(***************************************************************************)
C6_IterationComplete ==
    (hashtable # NoTable /\ InstalledKeys # {}) =>
       /\ \A i \in Fresh :
             LET out == iters[i].out
             IN  /\ \A j \in 1..Len(out) :
                       /\ out[j][1] \in InstalledKeys
                       /\ out[j][2] = installed[out[j][1]]
                 /\ \A j, l \in 1..Len(out) : j # l => out[j][1] # out[l][1]
                 /\ iters[i].done => Len(out) = Cardinality(InstalledKeys)
       /\ (last.op = "next" /\ last.ret \in Fresh
              /\ iters[last.ret].post = "none") => status = "run"

(***************************************************************************)
(* C7.  Iteration order: what a cursor on an unmodified, non-empty table   *)
(* has returned is an initial part of the installed pairs in the order of  *)
(* bucket index and, within a bucket, ascending key; so any two cursors    *)
(* agree.                                                                  *)
(***************************************************************************)
C7_IterationOrdered ==
    (hashtable # NoTable /\ InstalledKeys # {}) =>
       \A i \in Fresh :
          LET out == iters[i].out
              exp == ExpectedPairs
          IN  Len(out) <= Len(exp) /\ out = SubSeq(exp, 1, Len(out))

(***************************************************************************)
(* C8.  Empty table: on a table no install has stored anything in, a       *)
(* cursor returns no pair, its first symtabNext call returns NULL and      *)
(* leaves the process running, and symtabLookup returns NULL for every     *)
(* key.                                                                    *)
(***************************************************************************)
C8_EmptyTableEnds ==
    (hashtable # NoTable /\ InstalledKeys = {}) =>
       /\ \A i \in Fresh : iters[i].out = <<>>
       /\ (last.op = "next" /\ last.ret \in Fresh
              /\ iters[last.ret].post = "none")
             => last.key = NoKey /\ status = "run"
       /\ \A k \in Keys : symtabLookup(hashtable, heap, k) = NullWord
       /\ last.op = "lookup" => last.ret = NullWord

(***************************************************************************)
(* C9.  Exhaustion is terminal: every symtabNext call made on a cursor     *)
(* after it has signalled the end returns NULL again, with no pair         *)
(* returned and the process left running.  Stated of the cursors on an     *)
(* unmodified table that have read nothing outside the bucket array.       *)
(***************************************************************************)
C9_ExhaustionTerminal ==
    \A i \in Fresh : ~iters[i].bad => iters[i].post \in {"none", "end"}

(***************************************************************************)
(* C10.  symtabCreate returns NULL, and no table exists, when sizeHint < 1 *)
(* or one of its two allocations fails; otherwise the table it returns     *)
(* has the buckets 0 .. sizeHint-1, each of them empty.                    *)
(***************************************************************************)
C10_CreateContract ==
    last.op = "create" =>
       LET sizeHint == last.data[1]
           failed   == sizeHint < 1 \/ ~last.data[2] \/ ~last.data[3]
       IN  /\ failed => last.ret = 0 /\ hashtable = NoTable
           /\ ~failed => /\ last.ret = 1
                         /\ hashtable.size = sizeHint
                         /\ DOMAIN hashtable.table = 0..(sizeHint - 1)
                         /\ \A b \in Buckets : hashtable.table[b] = NULL
                         /\ TableEntries = <<>>

\* a create with the largest size hint and both allocations granted
\* succeeded: the table has MaxSize buckets, all empty
C10_Witness ==
    /\ last.op = "create" /\ last.ret = 1
    /\ last.data = <<MaxSize, TRUE, TRUE>>
    /\ hashtable.size = MaxSize
    /\ \A b \in 0..(MaxSize - 1) : hashtable.table[b] = NULL

(***************************************************************************)
(* C11.  symtabInstall and allocation failure: a call that cannot obtain   *)
(* the memory for the new entry or for the copy of its key returns 0, the  *)
(* process runs on, and the table holds what it held before the call;      *)
(* every other call returns 1.                                             *)
(***************************************************************************)
C11_InstallFailureAtomic ==
    [][last'.op = "install" =>
          IF last'.note \in {"nomem", "strcpy"}
          THEN /\ last'.ret = 0
               /\ status' = "run"
               /\ hashtable' = hashtable
               /\ Contents' = Contents
          ELSE last'.ret = 1]_vars

(***************************************************************************)
(* C12.  symtabCreateIterator and allocation failure: a call that cannot   *)
(* obtain the memory for the cursor or for the entry it puts in front of   *)
(* the first one returns NULL, the process runs on, and the table holds    *)
(* what it held before the call.                                           *)
(***************************************************************************)
C12_IteratorFailureSignalled ==
    [][(last'.op = "iterator" /\ last'.note \in {"nomem", "nomem2"}) =>
          /\ last'.ret = 0
          /\ status' = "run"
          /\ iters' = iters
          /\ hashtable' = hashtable
          /\ Contents' = Contents]_vars

(***************************************************************************)
(* C13.  symtabDelete makes no invalid access: it returns, and the bucket  *)
(* indexes it has read are 0 .. size-1, each once, in this order.          *)
(***************************************************************************)
C13_DeleteReadsInRange ==
    last.op = "delete" =>
       /\ status = "deleted"
       /\ freed.read = [j \in 1..hashtable.size |-> j - 1]

(***************************************************************************)
(* C14.  symtabDelete reclaims the table: when it has returned, the key    *)
(* copy and the node of every entry of every chain, the bucket array and   *)
(* the hashtable_t have been freed.                                        *)
(***************************************************************************)
C14_DeleteReclaimsAll ==
    (last.op = "delete" /\ status = "deleted") =>
       LET es == {TableEntries[i] : i \in 1..Len(TableEntries)}
       IN  /\ freed.keys = es
           /\ freed.nodes = es
           /\ freed.array
           /\ freed.table

(***************************************************************************)
(* C15.  symtabDeleteIterator reclaims the iterator: after the call the    *)
(* cursor and the entry allocated for it at its creation have been freed.  *)
(***************************************************************************)
C15_DeleteIteratorReclaims ==
    last.op = "deleteIterator" =>
       /\ last.ret \in freed.cursors
       /\ CursorAddr(last.ret) \in freed.nodes

(***************************************************************************)
(* C16.  Not-found is distinguishable: for every key at the head of its    *)
(* bucket, whatever value it was installed with (the zero word included),  *)
(* symtabLookup returns something other than NULL.                         *)
(***************************************************************************)
C16_NotFoundDistinct ==
    hashtable # NoTable =>
       /\ \A k \in HeadKeys :
             installed[k] # Absent => symtabLookup(hashtable, heap, k) # NullWord
       /\ (last.op = "lookup" /\ last.key \in HeadKeys /\ installed[last.key] # Absent)
             => last.ret # NullWord

(***************************************************************************)
(* C17.  Installing a key that is in the table overwrites the value of     *)
(* that key's entry and nothing else: the call returns 1, and the bucket   *)
(* array, the entries, their keys and links, and the values of all other   *)
(* entries are what they were before the call.                             *)
(***************************************************************************)
C17_UpdateFrame ==
    [][(last'.op = "install" /\ last'.note = "update") =>
          /\ last'.ret = 1
          /\ status' = "run"
          /\ hashtable' = hashtable
          /\ TableEntries' = TableEntries
          /\ \A a \in Addrs :
                /\ heap'[a].key = heap[a].key
                /\ heap'[a].next = heap[a].next
                /\ heap'[a].used = heap[a].used
                /\ heap[a].key # last'.key => heap'[a].value = heap[a].value
          /\ StoredValue(last.key)' = last'.data]_vars

\* the latest install overwrote, with 1, the value of a key stored behind the
\* head of its chain, and another entry of the table still holds 2
C17_Witness ==
    /\ last.op = "install" /\ last.note = "update" /\ last.ret = 1
    /\ last.key \in NonHeadKeys
    /\ last.data = Word(1)
    /\ StoredValue(last.key) = Word(1)
    /\ \E k \in InstalledKeys \ {last.key} : StoredValue(k) = Word(2)

(***************************************************************************)
(* C18.  symtabLookup, symtabCreateIterator, symtabNext and                *)
(* symtabDeleteIterator leave the table alone: the bucket array and the    *)
(* chains, with the keys and values of their entries, are after each such  *)
(* call what they were before it, also on a cursor that has seen an        *)
(* install since its creation.  (Contents is determined by hashtable and   *)
(* heap, so it is compared only where the heap has changed.)               *)
(***************************************************************************)
C18_ReadersLeaveTable ==
    [][last'.op \in {"lookup", "iterator", "next", "deleteIterator"} =>
          /\ hashtable' = hashtable
          /\ heap' = heap \/ Contents' = Contents]_vars

\* symtabNext has just returned a pair on a cursor that has seen an install
\* since its creation, over a table of several entries
C18_Witness ==
    /\ last.op = "next" /\ last.note = "pair"
    /\ iters[last.ret].stale
    /\ late > 0
    /\ Len(TableEntries) >= 2

(***************************************************************************)
(* C19.  Value fidelity (checked under SpecWide): symtabLookup returns,    *)
(* for every key at the head of its bucket, the full pointer-width value   *)
(* it was installed with, and so does symtabNext for the pairs it returns  *)
(* on an unmodified table.                                                 *)
(***************************************************************************)
C19_ValueFidelity ==
    hashtable # NoTable =>
       /\ \A k \in HeadKeys :
             installed[k] # Absent => symtabLookup(hashtable, heap, k) = installed[k]
       /\ (last.op = "next" /\ last.note = "pair"
              /\ last.ret \in Fresh /\ ~iters[last.ret].bad)
             => last.data = installed[last.key]

(***************************************************************************)
(* C20.  The iterator reads only buckets that exist: no cursor has read    *)
(* table[index] with index outside 0 .. size-1, neither at its creation    *)
(* nor in a symtabNext call.                                               *)
(***************************************************************************)
C20_BucketReadsInRange ==
    \A i \in 1..Len(iters) : ~iters[i].bad

====
